---- MODULE Spec2Model ----
(***************************************************************************)
(* A model of src/app.py: a Flask URL shortener over two SQL tables.       *)
(*                                                                         *)
(* The state is the two tables (User, URL), and, for every client, its     *)
(* login session and the request it has in flight: the form it sent, the   *)
(* handler's local variables.  A client sends one request at a time;       *)
(* requests of distinct clients run concurrently and interleave at the     *)
(* handler's store operations (a query, a commit).  The response a step    *)
(* sends is the message in flight until the next step.                     *)
(***************************************************************************)
EXTENDS Integers, Sequences, FiniteSets, TLC

(***************************************************************************)
(* Bounds of the model.                                                    *)
(***************************************************************************)
\* A redirect request is only started for a row with fewer clicks than this.
MaxClicks == 2
\* Depth at which the interpreter stops the recursion of generate_short_url
\* (sys.getrecursionlimit(), scaled down).
RecursionLimit == 1

(***************************************************************************)
(* Values.                                                                 *)
(***************************************************************************)
\* The concurrent clients (each request runs on a thread of its own).
Clients == {1, 2}

\* request.form.get(...) of a field that was not sent
None == "None"

\* The form fields the clients send.
Emails == {"a@x.org", "b@x.org"}
\* passwords accounts are registered with
Passwords == {"pw1"}
\* passwords logins are tried with
LoginPasswords == Passwords \cup {"pw2"}
\* original_url: a destination, or the field is not sent
OriginalUrls == {"https://example.com", None}

\* range(6) in generate_short_url
CodeLen == 6
\* string.ascii_letters + string.digits, scaled to one letter and one digit
characters == {"a", "7"}
\* The strings ''.join(random.choice(characters) for _ in range(6)) gives:
\* the draws of the model differ in their last character only.
RandomCodes ==
    {s \in [1..CodeLen -> characters] : \A i \in 1..(CodeLen - 1) : s[i] = "a"}
\* The short codes a client may ask for: every code, and one that is too short.
PathCodes == RandomCodes \cup {<<"7">>}

\* A local variable that holds no short code.
NoCode == <<>>
\* A local variable that holds no URL row.
NoRow == [id |-> 0, original_url |-> None, short_url |-> NoCode,
          clicks |-> 0, user_id |-> 0]
\* flask_login's anonymous user
Anonymous == 0

\* werkzeug's generate_password_hash(password, method='sha256'): a tagged digest
generate_password_hash(password) == [method |-> "sha256", digest |-> password]
\* The check of the password left out: any password matches.
PasswordNotChecked(pwhash, password) == TRUE
\* werkzeug's check_password_hash(pwhash, password)
check_password_hash(pwhash, password) == pwhash = generate_password_hash(password)

(***************************************************************************)
(* Requests and responses.                                                 *)
(***************************************************************************)
NoForm == [endpoint |-> "none", email |-> None, password |-> None,
           original_url |-> None, short_url |-> NoCode]
Form(endpoint, email, password, original_url, short_url) ==
    [endpoint |-> endpoint, email |-> email, password |-> password,
     original_url |-> original_url, short_url |-> short_url]

\* The body of a response: status, Location header, flashed message, the
\* uncaught exception of a 500, and the rows the dashboard template gets.
NoBody == [status |-> 0, location |-> None, flash |-> None,
           error |-> None, urls |-> <<>>]
\* No response is in flight.
NoResponse == [client |-> 0, request |-> NoForm, body |-> NoBody,
               overlapped |-> FALSE]
\* redirect(...) after an optional flash(...)
Redirect(location, message) ==
    [status |-> 302, location |-> location, flash |-> message,
     error |-> None, urls |-> <<>>]
\* render_template('dashboard.html', urls=urls)
render_dashboard(rows) ==
    [status |-> 200, location |-> None, flash |-> None,
     error |-> None, urls |-> rows]
\* first() in place of first_or_404(): url is None and url.clicks raises.
FirstWithoutOr404 ==
    [status |-> 500, location |-> None, flash |-> None,
     error |-> "AttributeError", urls |-> <<>>]

\* first_or_404()
NotFound ==
    [status |-> 404, location |-> None, flash |-> None,
     error |-> "NotFound", urls |-> <<>>]
\* an exception no handler catches
ServerError(exception) ==
    [status |-> 500, location |-> None, flash |-> None,
     error |-> exception, urls |-> <<>>]

VARIABLES
    User,          \* the user table, in insertion order
    URL,           \* the url table, in insertion order
    current_user,  \* per client: the id its session is logged in as, or Anonymous
    pc,            \* per client: where its request's handler stands
    form,          \* per client: the request it sent last
    short_url,     \* per client: dashboard's local short_url
    depth,         \* per client: recursion depth of generate_short_url
    url,           \* per client: redirect_to_url's local url (the loaded row)
    response,      \* the response the last step sent: to which client, to
                   \* which request, and its body; NoResponse if it sent none
    overlapped     \* history: per client with a redirect request in flight,
                   \* whether another one for the same row ran during it

vars == <<User, URL, current_user, pc, form, short_url, depth, url, response,
          overlapped>>

(***************************************************************************)
(* Queries.                                                                *)
(***************************************************************************)
Range(s) == {s[i] : i \in 1..Len(s)}

\* User.query.filter_by(email=email).first()
UsersByEmail(email) == {u \in Range(User) : u.email = email}
\* URL.query.filter_by(short_url=short_url).first()
UrlsByCode(code) == {r \in Range(URL) : r.short_url = code}
\* URL.query.filter_by(user_id=current_user.id).all()
\* The query without its filter_by: every row of the table.
AllUrls(user_id) == URL
\* URL.query.filter_by(user_id=current_user.id).all(), in the table's order.
UrlsByOwner(user_id) == SelectSeq(URL, LAMBDA r : r.user_id = user_id)

Init ==
    /\ User = <<>>
    /\ URL = <<>>
    /\ current_user = [p \in Clients |-> Anonymous]
    /\ pc = [p \in Clients |-> "idle"]
    /\ form = [p \in Clients |-> NoForm]
    /\ short_url = [p \in Clients |-> NoCode]
    /\ depth = [p \in Clients |-> 0]
    /\ url = [p \in Clients |-> NoRow]
    /\ response = NoResponse
    /\ overlapped = [p \in Clients |-> FALSE]

\* The store may refuse a commit (sqlite: "database is locked").
OperationalError == ServerError("OperationalError")
\* The constraint a commit violates is named in the exception.
IntegrityError(constraint) == ServerError(constraint)
\* @login_required, with login_manager.login_view = 'login'
Unauthorized == Redirect("login", "Please log in to access this page.")

\* The request f of client p ends with the response body b; the locals of its
\* handler are gone.
Return(p, f, b) ==
    /\ response' = [client |-> p, request |-> f, body |-> b,
                    overlapped |-> overlapped[p]]
    /\ pc' = [pc EXCEPT ![p] = "idle"]
    /\ form' = [form EXCEPT ![p] = NoForm]
    /\ short_url' = [short_url EXCEPT ![p] = NoCode]
    /\ depth' = [depth EXCEPT ![p] = 0]
    /\ url' = [url EXCEPT ![p] = NoRow]

\* The handler of client p, serving request f, goes on at label l.
Goto(p, f, l) ==
    /\ response' = NoResponse
    /\ pc' = [pc EXCEPT ![p] = l]
    /\ form' = [form EXCEPT ![p] = f]

\* The check for an existing user left out.
NoExistingUser(email) == {}

\* user = User.query.filter_by(email=email).first(), in register
existing_user(email) == UsersByEmail(email)

(***************************************************************************)
(* POST /register, up to the query for the email.                          *)
(***************************************************************************)
register(p, email, password) ==
    LET f == Form("register", email, password, None, NoCode)
    IN /\ pc[p] = "idle"
       /\ IF existing_user(email) # {}
          THEN Return(p, f, Redirect("register", "Email address already exists"))
          ELSE /\ Goto(p, f, "register_commit")
               /\ UNCHANGED <<short_url, depth, url>>
       /\ UNCHANGED <<User, URL, current_user, overlapped>>

\* The row db.session.add(new_user) inserts.
NewUser(email, password) ==
    [id |-> Len(User) + 1, email |-> email,
     password |-> generate_password_hash(password)]

\* The constraints of the user table an insert of row violates (email: unique).
UserConstraintsViolated(row) ==
    IF UsersByEmail(row.email) # {}
    THEN {"UNIQUE constraint failed: user.email"} ELSE {}

(***************************************************************************)
(* POST /register: db.session.add(new_user); db.session.commit().          *)
(***************************************************************************)
register_commit(p) ==
    /\ pc[p] = "register_commit"
    /\ LET new_user == NewUser(form[p].email, form[p].password)
       IN \E available \in BOOLEAN :
          IF ~available
          THEN /\ Return(p, form[p], OperationalError)
               /\ UNCHANGED User
          ELSE IF UserConstraintsViolated(new_user) # {}
          THEN /\ \E c \in UserConstraintsViolated(new_user) :
                      Return(p, form[p], IntegrityError(c))
               /\ UNCHANGED User
          ELSE /\ User' = Append(User, new_user)
               /\ Return(p, form[p], Redirect("login", "Account created successfully"))
    /\ UNCHANGED <<URL, current_user, overlapped>>

(***************************************************************************)
(* POST /login.                                                            *)
(***************************************************************************)
login(p, email, password) ==
    LET f == Form("login", email, password, None, NoCode)
        user == {u \in UsersByEmail(email) :
                    check_password_hash(u.password, password)}
    IN /\ pc[p] = "idle"
       /\ IF user # {}
          THEN /\ current_user' =
                      [current_user EXCEPT ![p] = (CHOOSE u \in user : TRUE).id]
               /\ Return(p, f, Redirect("dashboard", None))
          ELSE /\ Return(p, f, Redirect("login", "Invalid email or password"))
               /\ UNCHANGED current_user
       /\ UNCHANGED <<User, URL, overlapped>>

(***************************************************************************)
(* GET /logout.                                                            *)
(***************************************************************************)
logout(p) ==
    LET f == Form("logout", None, None, None, NoCode)
    IN /\ pc[p] = "idle"
       /\ IF current_user[p] = Anonymous
          THEN /\ Return(p, f, Unauthorized)
               /\ UNCHANGED current_user
          ELSE /\ current_user' = [current_user EXCEPT ![p] = Anonymous]
               /\ Return(p, f, Redirect("index", None))
       /\ UNCHANGED <<User, URL, overlapped>>

(***************************************************************************)
(* GET /dashboard: the listing of the logged-in user's rows.               *)
(***************************************************************************)
dashboard_get(p) ==
    LET f == Form("dashboard GET", None, None, None, NoCode)
    IN /\ pc[p] = "idle"
       /\ IF current_user[p] = Anonymous
          THEN Return(p, f, Unauthorized)
          ELSE Return(p, f, render_dashboard(UrlsByOwner(current_user[p])))
       /\ UNCHANGED <<User, URL, current_user, overlapped>>

(***************************************************************************)
(* POST /dashboard, up to the call of generate_short_url.                  *)
(***************************************************************************)
dashboard(p, original_url) ==
    LET f == Form("dashboard POST", None, None, original_url, NoCode)
    IN /\ pc[p] = "idle"
       /\ IF current_user[p] = Anonymous
          THEN Return(p, f, Unauthorized)
          ELSE /\ Goto(p, f, "generate_short_url")
               /\ UNCHANGED <<short_url, depth, url>>
       /\ UNCHANGED <<User, URL, current_user, overlapped>>

\* The collision query left out: every candidate is taken as free.
NeverCollides(code) == FALSE

\* if URL.query.filter_by(short_url=short_url).first(): the candidate is taken
Collides(code) == UrlsByCode(code) # {}

\* A generator that reserves the code it returns: the lookup inserts a row.
generate_short_url_reserving(p) ==
    /\ pc[p] = "generate_short_url"
    /\ \E candidate \in RandomCodes :
        /\ URL' = Append(URL, [id |-> Len(URL) + 1, original_url |-> None,
                               short_url |-> candidate, clicks |-> 0,
                               user_id |-> current_user[p]])
        /\ short_url' = [short_url EXCEPT ![p] = candidate]
        /\ pc' = [pc EXCEPT ![p] = "dashboard_commit"]
        /\ response' = NoResponse
    /\ UNCHANGED <<User, current_user, overlapped, form, url, depth>>

(***************************************************************************)
(* One call of generate_short_url: a random candidate and the query for    *)
(* it.  A taken candidate makes the function call itself; the code sets no *)
(* limit, the interpreter ends the recursion with a RecursionError.        *)
(***************************************************************************)
generate_short_url(p) ==
    /\ pc[p] = "generate_short_url"
    /\ \E candidate \in RandomCodes :
        IF Collides(candidate)
        THEN IF depth[p] >= RecursionLimit
             THEN Return(p, form[p], ServerError("RecursionError"))
             ELSE /\ depth' = [depth EXCEPT ![p] = depth[p] + 1]
                  /\ response' = NoResponse
                  /\ UNCHANGED <<pc, form, short_url, url>>
        ELSE /\ short_url' = [short_url EXCEPT ![p] = candidate]
             /\ pc' = [pc EXCEPT ![p] = "dashboard_commit"]
             /\ depth' = [depth EXCEPT ![p] = 0]
             /\ response' = NoResponse
             /\ UNCHANGED <<form, url>>
    /\ UNCHANGED <<User, URL, current_user, overlapped>>

\* clicks = db.Column(db.Integer, default=0)
DefaultClicks == 0

\* A new row that counts its creation as a click.
NewURLClicked(original_url, code, owner) ==
    [id |-> Len(URL) + 1, original_url |-> original_url, short_url |-> code,
     clicks |-> DefaultClicks + 1, user_id |-> owner]

\* A row owned by the first user whoever is logged in.
NewURLOfFirstUser(original_url, code, owner) ==
    [id |-> Len(URL) + 1, original_url |-> original_url, short_url |-> code,
     clicks |-> DefaultClicks, user_id |-> 1]

\* URL(original_url=original_url, short_url=short_url, owner=current_user)
NewURL(original_url, code, owner) ==
    [id |-> Len(URL) + 1, original_url |-> original_url, short_url |-> code,
     clicks |-> DefaultClicks, user_id |-> owner]

\* The url table with short_url not declared unique.
UrlConstraintsWithoutUnique(row) ==
    IF row.original_url = None
    THEN {"NOT NULL constraint failed: url.original_url"} ELSE {}

\* The constraint of the url table an insert of row violates, if any (the
\* store checks NOT NULL before UNIQUE).
\* original_url: nullable=False; short_url: unique=True.
UrlConstraintsViolated(row) ==
    IF row.original_url = None
    THEN {"NOT NULL constraint failed: url.original_url"}
    ELSE IF UrlsByCode(row.short_url) # {}
    THEN {"UNIQUE constraint failed: url.short_url"}
    ELSE {}

\* An insert that replaces the row its owner already has (one row per user).
InsertedOrReplaced(table, row) ==
    IF \E i \in 1..Len(table) : table[i].user_id = row.user_id
    THEN LET i == CHOOSE i \in 1..Len(table) : table[i].user_id = row.user_id
         IN [table EXCEPT ![i] = [row EXCEPT !.id = i]]
    ELSE Append(table, row)

\* The table after db.session.add(row); db.session.commit(): INSERT.
Inserted(table, row) == Append(table, row)

(***************************************************************************)
(* POST /dashboard: db.session.add(new_url); db.session.commit().          *)
(***************************************************************************)
dashboard_commit(p) ==
    /\ pc[p] = "dashboard_commit"
    /\ LET new_url == NewURL(form[p].original_url, short_url[p], current_user[p])
       IN \E available \in BOOLEAN :
          IF ~available
          THEN /\ Return(p, form[p], OperationalError)
               /\ UNCHANGED URL
          ELSE IF UrlConstraintsViolated(new_url) # {}
          THEN /\ \E c \in UrlConstraintsViolated(new_url) :
                      Return(p, form[p], IntegrityError(c))
               /\ UNCHANGED URL
          ELSE /\ URL' = Inserted(URL, new_url)
               /\ Return(p, form[p],
                         Redirect("dashboard", "Short URL created successfully"))
    /\ UNCHANGED <<User, current_user, overlapped>>

\* The clients whose redirect request has loaded row id and not yet committed.
InFlight(id) == {q \in Clients : pc[q] = "redirect_to_url_commit" /\ url[q].id = id}

(***************************************************************************)
(* GET /<short_url>, up to the query: first_or_404().                      *)
(***************************************************************************)
redirect_to_url(p, code) ==
    LET f == Form("redirect_to_url", None, None, None, code)
    IN /\ pc[p] = "idle"
       /\ \A r \in UrlsByCode(code) : r.clicks < MaxClicks
       /\ IF UrlsByCode(code) = {}
          THEN /\ Return(p, f, NotFound)
               /\ UNCHANGED overlapped
          ELSE LET row == CHOOSE r \in UrlsByCode(code) : TRUE
               IN /\ url' = [url EXCEPT ![p] = row]
                  /\ Goto(p, f, "redirect_to_url_commit")
                  /\ overlapped' =
                         [q \in Clients |->
                             IF q = p THEN InFlight(row.id) # {}
                             ELSE overlapped[q] \/ q \in InFlight(row.id)]
                  /\ UNCHANGED <<short_url, depth>>
       /\ UNCHANGED <<User, URL, current_user>>

\* url.clicks += 2
ClickedTwice(row) == [row EXCEPT !.clicks = row.clicks + 2]

\* url.clicks += 1, on the row object the query loaded
Clicked(row) == [row EXCEPT !.clicks = row.clicks + 1]

\* An UPDATE without its WHERE clause: every row gets the new clicks.
UpdatedEveryRow(table, row) ==
    [i \in 1..Len(table) |-> [table[i] EXCEPT !.clicks = row.clicks]]

\* The table after the commit of a changed row object: UPDATE url SET
\* clicks=<row.clicks> WHERE url.id = <row.id> (only clicks was assigned).
Updated(table, row) == [table EXCEPT ![row.id].clicks = row.clicks]

\* The failure of the commit caught and ignored: the redirect is sent anyway.
CommitFailureIgnored(row) == Redirect(row.original_url, None)

\* db.session.commit() raises and nothing catches it: the request ends in a 500.
CommitFailed(row) == OperationalError

(***************************************************************************)
(* GET /<short_url>: url.clicks += 1; db.session.commit(); redirect.       *)
(* The commit writes the loaded row's new clicks to the row of its id.     *)
(***************************************************************************)
redirect_to_url_commit(p) ==
    /\ pc[p] = "redirect_to_url_commit"
    /\ \E available \in BOOLEAN :
        IF ~available
        THEN /\ Return(p, form[p], CommitFailed(url[p]))
             /\ UNCHANGED URL
        ELSE /\ URL' = Updated(URL, Clicked(url[p]))
             /\ Return(p, form[p], Redirect(url[p].original_url, None))
    /\ overlapped' = [overlapped EXCEPT ![p] = FALSE]
    /\ UNCHANGED <<User, current_user>>

Next ==
    \E p \in Clients :
        \/ \E email \in Emails, password \in Passwords : register(p, email, password)
        \/ register_commit(p)
        \/ \E email \in Emails, password \in LoginPasswords : login(p, email, password)
        \/ logout(p)
        \/ dashboard_get(p)
        \/ \E original_url \in OriginalUrls : dashboard(p, original_url)
        \/ generate_short_url(p)
        \/ dashboard_commit(p)
        \/ \E code \in PathCodes : redirect_to_url(p, code)
        \/ redirect_to_url_commit(p)

Spec == Init /\ [][Next]_vars

(***************************************************************************)
(* The responses the claims speak of.                                      *)
(***************************************************************************)
\* The last step answered a request to this endpoint.
Answered(endpoint) ==
    response.client \in Clients /\ response.request.endpoint = endpoint

\* In the step taken, client p's request arrived (its handler started).
Started(p) == pc[p] = "idle" /\ (pc'[p] # "idle" \/ response'.client = p)
\* In the step taken, client p's request was answered.
Ended(p) == response'.client = p
\* The step taken is a step of client p's handler.
Stepped(p) ==
    \/ response'.client = p
    \/ <<pc[p], form[p], short_url[p], depth[p], url[p]>>
           # <<pc'[p], form'[p], short_url'[p], depth'[p], url'[p]>>
\* The request of client p the step taken worked on.
Request(p) == IF response'.client = p THEN response'.request ELSE form'[p]

DuplicateCode == "UNIQUE constraint failed: url.short_url"
DuplicateEmail == "UNIQUE constraint failed: user.email"

(***************************************************************************)
(* C1: in every reachable state, whatever creates and redirects ran and    *)
(* however they interleaved, no two rows of the url table have the same    *)
(* short_url.                                                              *)
(***************************************************************************)
C1_ShortCodeUnique ==
    \A i, j \in 1..Len(URL) : URL[i].short_url = URL[j].short_url => i = j

\* Two rows are stored, the second while a concurrent create with the same
\* candidate was under way: that one's insert has just been rejected.
C1_Witness ==
    /\ Len(URL) = 2
    /\ Answered("dashboard POST")
    /\ response.body.error = DuplicateCode

(***************************************************************************)
(* C2: no lost updates.  Every redirect request that completes adds        *)
(* exactly 1 to the stored clicks of its row, whichever other redirect     *)
(* requests for the code read, wrote or committed since it read the row:   *)
(* so N concurrent ones that complete leave clicks at c + N.               *)
(***************************************************************************)
C2_NoLostUpdates ==
    [][\A p \in Clients :
          (/\ pc[p] = "redirect_to_url_commit"
           /\ Ended(p)
           /\ response'.body.status = 302)
              => URL'[url[p].id].clicks = URL[url[p].id].clicks + 1]_vars

(***************************************************************************)
(* C3: a create request never ends with the store's uniqueness violation   *)
(* on short_url surfaced to its caller (the caller retries with a new      *)
(* code instead, and ends with a row inserted).                            *)
(***************************************************************************)
C3_DuplicateCodeNeverSurfaced ==
    Answered("dashboard POST") => response.body.error # DuplicateCode

(***************************************************************************)
(* C4: the generator retries a bounded number of times and then fails      *)
(* with GenerationExhausted: whenever a step of generate_short_url ends    *)
(* the request, the response carries that error.                           *)
(***************************************************************************)
C4_GenerationExhausted ==
    [][\A p \in Clients :
          (pc[p] = "generate_short_url" /\ response'.client = p)
              => response'.body.error = "GenerationExhausted"]_vars

(***************************************************************************)
(* C5: a redirect request for a code some row has is not answered 404: it  *)
(* loads that row.  Unless the store fails, it is answered by a redirect   *)
(* to that row's original_url, and if no other redirect request for the    *)
(* row ran during it, the row's clicks is then what it was before the      *)
(* request plus exactly 1.                                                 *)
(***************************************************************************)
C5_ResolveExisting ==
    [][\A p \in Clients :
          /\ (/\ Started(p)
              /\ Request(p).endpoint = "redirect_to_url"
              /\ UrlsByCode(Request(p).short_url) # {})
                 => /\ pc'[p] = "redirect_to_url_commit"
                    /\ url'[p] \in UrlsByCode(form'[p].short_url)
          /\ (pc[p] = "redirect_to_url_commit" /\ Ended(p))
                 => \/ response'.body = OperationalError
                    \/ \E r \in UrlsByCode(form[p].short_url) :
                          /\ response'.body = Redirect(r.original_url, None)
                          /\ ~overlapped[p] =>
                                 /\ r.clicks = url[p].clicks
                                 /\ URL'[r.id].clicks = r.clicks + 1]_vars

\* A redirect for an existing code was just sent, none ran beside it, and the
\* row counts its one click.
C5_Witness ==
    /\ Answered("redirect_to_url")
    /\ response.body.status = 302
    /\ ~response.overlapped
    /\ \E r \in UrlsByCode(response.request.short_url) :
          /\ response.body.location = r.original_url
          /\ r.clicks = 1

(***************************************************************************)
(* C6: a redirect request for a code no row has is answered 404 at once:   *)
(* the response names no destination and no row changes.                   *)
(***************************************************************************)
C6_UnknownCodeNotFound ==
    [][\A p \in Clients :
          (/\ Started(p)
           /\ Request(p).endpoint = "redirect_to_url"
           /\ UrlsByCode(Request(p).short_url) = {})
              => /\ Ended(p)
                 /\ response'.body.status = 404
                 /\ response'.body.location = None
                 /\ URL' = URL]_vars

\* A 404 was just sent for a code that no row of a non-empty table has.
C6_Witness ==
    /\ Answered("redirect_to_url")
    /\ response.body.status = 404
    /\ URL # <<>>
    /\ UrlsByCode(response.request.short_url) = {}

\* The response of a successful create.
Created == Redirect("dashboard", "Short URL created successfully")

(***************************************************************************)
(* C7: a create that succeeds for logged-in user A and original_url u adds *)
(* exactly one row to the url table, after the rows it had: its            *)
(* original_url is u, its owner A, its clicks 0, and no row held its       *)
(* short_url before.                                                       *)
(***************************************************************************)
C7_CreateAddsOneRow ==
    [][\A p \in Clients :
          (pc[p] = "dashboard_commit" /\ Ended(p) /\ response'.body = Created)
              => /\ Len(URL') = Len(URL) + 1
                 /\ SubSeq(URL', 1, Len(URL)) = URL
                 /\ current_user[p] # Anonymous
                 /\ LET new == URL'[Len(URL')]
                    IN /\ new.original_url = form[p].original_url
                       /\ new.user_id = current_user[p]
                       /\ new.clicks = 0
                       /\ UrlsByCode(new.short_url) = {}]_vars

\* A create just succeeded, and added the second row of the table.
C7_Witness ==
    /\ Answered("dashboard POST")
    /\ response.body = Created
    /\ Len(URL) = 2
    /\ URL[2].original_url = response.request.original_url

(***************************************************************************)
(* C8: no redirect is sent for a redirect request whose increment was not  *)
(* committed: when the request is answered 302, the stored row holds the   *)
(* clicks the request loaded plus 1; when the commit fails, the request    *)
(* fails.                                                                  *)
(***************************************************************************)
C8_NoRedirectWithoutIncrement ==
    [][\A p \in Clients :
          (/\ pc[p] = "redirect_to_url_commit"
           /\ Ended(p)
           /\ response'.body.status = 302)
              => URL'[url[p].id].clicks = url[p].clicks + 1]_vars

\* The commit of a redirect request just failed: the request got a 500 and
\* the row has no click.
C8_Witness ==
    /\ Answered("redirect_to_url")
    /\ response.body = OperationalError
    /\ \E r \in UrlsByCode(response.request.short_url) :
          r.clicks = 0

\* flash('Email address already exists'); redirect(url_for('register'))
EmailExists == Redirect("register", "Email address already exists")

(***************************************************************************)
(* C9: a register request whose email a row of the user table has is       *)
(* answered with the duplicate-email message and a redirect back to the    *)
(* form, and leaves the user table as it was.                              *)
(***************************************************************************)
C9_RegisterExistingEmail ==
    [][\A p \in Clients :
          (/\ Started(p)
           /\ Request(p).endpoint = "register"
           /\ UsersByEmail(Request(p).email) # {})
              => /\ Ended(p)
                 /\ response'.body = EmailExists
                 /\ User' = User]_vars

\* A register request for a registered email was just turned down.
C9_Witness ==
    /\ Answered("register")
    /\ response.body = EmailExists
    /\ UsersByEmail(response.request.email) # {}
    /\ Len(User) = 1

(***************************************************************************)
(* C10: of two concurrent register requests for one new email, the one     *)
(* whose insert violates the store's uniqueness of email gets the          *)
(* duplicate-email message: no register request ends in the uncaught       *)
(* uniqueness violation.                                                   *)
(***************************************************************************)
C10_DuplicateEmailCaught ==
    Answered("register") => response.body.error # DuplicateEmail

(***************************************************************************)
(* C11: the clicks of a row never decreases and is never negative, and it  *)
(* changes only in a step of a redirect request for that row's code:       *)
(* create, listing, register, login and logout leave every clicks as it    *)
(* was.                                                                    *)
(***************************************************************************)
C11_ClicksMonotone ==
    [][\A i \in 1..Len(URL) :
          /\ URL'[i].clicks >= URL[i].clicks
          /\ URL'[i].clicks >= 0
          /\ URL'[i].clicks # URL[i].clicks
                => \E p \in Clients :
                      /\ Stepped(p)
                      /\ form[p].endpoint = "redirect_to_url"
                      /\ form[p].short_url = URL[i].short_url]_vars

(***************************************************************************)
(* C12: once a row is inserted its short_url never changes: every step     *)
(* keeps every row of the table, at its place, with its code.              *)
(***************************************************************************)
C12_ShortCodeImmutable ==
    [][/\ Len(URL') >= Len(URL)
       /\ \A i \in 1..Len(URL) :
             /\ URL'[i].id = URL[i].id
             /\ URL'[i].short_url = URL[i].short_url]_vars

\* Two rows are stored, the first was clicked since, and each has a code of
\* its own.
C12_Witness ==
    /\ Len(URL) = 2
    /\ URL[1].clicks > 0
    /\ URL[1].short_url # URL[2].short_url
    /\ URL[1].short_url \in RandomCodes

C14_OwnedByCreator ==
    [][/\ \A i \in 1..Len(URL') :
             Cardinality({j \in 1..Len(User') :
                             User'[j].id = URL'[i].user_id}) = 1
       /\ \A i \in (Len(URL) + 1)..Len(URL') :
             \E p \in Clients :
                /\ Stepped(p)
                /\ form[p].endpoint = "dashboard POST"
                /\ current_user[p] # Anonymous
                /\ URL'[i].user_id = current_user[p]]_vars

\* The second registered user just created a row, and owns it.
C14_Witness ==
    /\ Answered("dashboard POST")
    /\ response.body = Created
    /\ Len(User) = 2
    /\ current_user[response.client] = 2
    /\ URL[Len(URL)].user_id = 2

MissingUrl == "NOT NULL constraint failed: url.original_url"

(***************************************************************************)
(* C15: a create request of a logged-in client whose form has no           *)
(* original_url is turned down by validation: it does not fail with the    *)
(* store's NOT NULL violation on url.original_url.                         *)
(***************************************************************************)
C15_MissingUrlValidated ==
    (/\ Answered("dashboard POST")
     /\ response.request.original_url = None
     /\ response.body # Unauthorized)
        => response.body.error # MissingUrl

\* string.ascii_letters + string.digits: the 62 symbols a-z, A-Z, 0-9.
Alphanumeric ==
    {"a", "b", "c", "d", "e", "f", "g", "h", "i", "j", "k", "l", "m",
     "n", "o", "p", "q", "r", "s", "t", "u", "v", "w", "x", "y", "z",
     "A", "B", "C", "D", "E", "F", "G", "H", "I", "J", "K", "L", "M",
     "N", "O", "P", "Q", "R", "S", "T", "U", "V", "W", "X", "Y", "Z",
     "0", "1", "2", "3", "4", "5", "6", "7", "8", "9"}

(***************************************************************************)
(* C16: every code generate_short_url returns has exactly 6 characters,    *)
(* each one of the 62 letters and digits, and no row of the url table had  *)
(* that code when the generator queried for it.                            *)
(***************************************************************************)
C16_GeneratedCode ==
    [][\A p \in Clients :
          (pc[p] = "generate_short_url" /\ pc'[p] = "dashboard_commit")
              => /\ Len(short_url'[p]) = 6
                 /\ \A i \in 1..Len(short_url'[p]) :
                       short_url'[p][i] \in Alphanumeric
                 /\ \A i \in 1..Len(URL) :
                       URL[i].short_url # short_url'[p]]_vars

\* The generator returned a code while the table had a row with another one.
C16_Witness ==
    \E p \in Clients :
       /\ pc[p] = "dashboard_commit"
       /\ Len(short_url[p]) = 6
       /\ URL # <<>>
       /\ \A i \in 1..Len(URL) : URL[i].short_url # short_url[p]

(***************************************************************************)
(* C17: a lookup changes no row.  The steps of the generator's collision   *)
(* query and of the listing leave the url table as it was, and the clicks  *)
(* of a row is the same from one step to the next unless the step commits  *)
(* a redirect request for that row's code: two lookups of a code with no   *)
(* redirect of it in between find the same clicks.                         *)
(***************************************************************************)
C17_LookupChangesNothing ==
    [][/\ \A p \in Clients :
             (/\ Stepped(p)
              /\ \/ pc[p] = "generate_short_url"
                 \/ pc[p] = "idle" /\ Request(p).endpoint = "dashboard GET")
                 => URL' = URL
       /\ \A i \in 1..Len(URL) :
             (~ \E p \in Clients :
                   /\ Stepped(p)
                   /\ pc[p] = "redirect_to_url_commit"
                   /\ form[p].short_url = URL[i].short_url)
                 => URL'[i].clicks = URL[i].clicks]_vars

\* A listing was just answered with a clicked row: it shows the stored clicks.
C17_Witness ==
    /\ Answered("dashboard GET")
    /\ response.body.urls # <<>>
    /\ response.body.urls[1].clicks = 1
    /\ URL[response.body.urls[1].id].clicks = 1

\* Some row of the user table has this email and the hash of this password.
Matches(email, password) ==
    {j \in 1..Len(User) :
        User[j].email = email /\ User[j].password.digest = password}

(***************************************************************************)
(* C18: a client's session comes to hold a user only in a step of a login  *)
(* request of that client whose email is the email of a row of the user    *)
(* table and whose password is that row's, and it then holds that row's    *)
(* id; a login with an unknown email or a wrong password leaves the        *)
(* session as it was; a logout leaves the session anonymous; and a         *)
(* dashboard request, listing or create, of a client whose session is      *)
(* anonymous is sent to the login page and changes no table.               *)
(***************************************************************************)
C18_SessionOrdering ==
    [][\A p \in Clients :
          /\ (current_user'[p] # current_user[p]
                 /\ current_user'[p] # Anonymous)
                => /\ Started(p)
                   /\ Request(p).endpoint = "login"
                   /\ \E j \in Matches(Request(p).email, Request(p).password) :
                         current_user'[p] = User[j].id
          /\ (/\ Started(p)
              /\ Request(p).endpoint = "login"
              /\ Matches(Request(p).email, Request(p).password) = {})
                => /\ current_user'[p] = current_user[p]
                   /\ response'.body =
                          Redirect("login", "Invalid email or password")
          /\ (Started(p) /\ Request(p).endpoint = "logout")
                => current_user'[p] = Anonymous
          /\ (/\ Started(p)
              /\ Request(p).endpoint \in {"dashboard GET", "dashboard POST"}
              /\ current_user[p] = Anonymous)
                => /\ Ended(p)
                   /\ response'.body = Unauthorized
                   /\ URL' = URL
                   /\ current_user'[p] = Anonymous]_vars

\* A login with the wrong password for a registered email was just turned
\* down, and the client's session is anonymous.
C18_Witness ==
    /\ Answered("login")
    /\ UsersByEmail(response.request.email) # {}
    /\ response.request.password \notin Passwords
    /\ response.body = Redirect("login", "Invalid email or password")
    /\ current_user[response.client] = Anonymous

(***************************************************************************)
(* C19: a step of a redirect request for a code changes nothing in the     *)
(* tables and the sessions but the clicks of the row with that code: the   *)
(* user table, the number of rows, every other row, and the id,            *)
(* original_url, short_url and user_id of that row are as they were; and   *)
(* when the request is answered 404 the url table is as it was.            *)
(***************************************************************************)
C19_ResolveFrame ==
    [][\A p \in Clients :
          (/\ Stepped(p)
           /\ \/ pc[p] = "idle" /\ Request(p).endpoint = "redirect_to_url"
              \/ pc[p] = "redirect_to_url_commit")
              => LET code == IF pc[p] = "idle" THEN Request(p).short_url
                                               ELSE form[p].short_url
                 IN /\ User' = User
                    /\ current_user' = current_user
                    /\ Len(URL') = Len(URL)
                    /\ \A i \in 1..Len(URL) :
                          \/ URL'[i] = URL[i]
                          \/ /\ URL[i].short_url = code
                             /\ URL'[i] =
                                  [URL[i] EXCEPT !.clicks = URL'[i].clicks]
                    /\ response'.body = NotFound => URL' = URL]_vars

\* A redirect was just answered while the table has a second row, which still
\* has no click.
C19_Witness ==
    /\ Answered("redirect_to_url")
    /\ response.body.status = 302
    /\ Len(URL) = 2
    /\ \E i, j \in 1..2 :
          /\ URL[i].short_url = response.request.short_url
          /\ URL[i].clicks > 0
          /\ URL[j].short_url # response.request.short_url
          /\ URL[j].clicks = 0

====
